---- MODULE Spec2Model ----
(***************************************************************************)
(* Memory Palace web client (carlostbanks/memorias-ai, frontend).          *)
(*                                                                         *)
(* The model covers the session/token plumbing (lib/auth.ts), the landing  *)
(* dispatcher (app/page.tsx), the sign-in page, the onboarding page and    *)
(* the two dashboard versions, together with the backend requests they     *)
(* have in flight.  Numbers with a fraction in the source (similarity      *)
(* scores) are kept in hundredths: 0.1 is 10, 0.8 is 80.                   *)
(*                                                                         *)
(* Specifications:                                                         *)
(*   Spec      the client as a whole: session, routes, requests in flight  *)
(*   SpecData  the post-processing of one backend response body `resp`     *)
(*             (search filter, recency store, category filter)             *)
(*   SpecAnswer    the direct answer searchMemories extracts from one      *)
(*                 search response body                                    *)
(*   SpecCalendar  the calendar (components/CalendarHeatMap.tsx) over one  *)
(*                 memory list, paged and resized                          *)
(***************************************************************************)
EXTENDS Integers, Sequences, FiniteSets, TLC

VARIABLES
    jwt,              \* the NextAuth JWT cookie: [present, accessToken]
    status,           \* useSession().status
    session,          \* useSession().data: [present, accessToken]
    issued,           \* number of access tokens the backend has issued
    expired,          \* access tokens the backend no longer accepts
    route,            \* the page the browser shows
    pendingNav,       \* the route a router.replace / router.push is taking the browser to
    dashVariant,      \* which dashboard version is deployed at /dashboard
    effectDue,        \* the [session, status, router] effect of the page has to run
    inflight,         \* requests sent and not yet answered, in issue order
    ev,               \* the handler step that was taken last
    rejected,         \* a request was answered 401 since the last sign-in
    pageReady,        \* onboarding page: pageReady
    onbLoading,       \* onboarding page: loading
    onbError,         \* onboarding page: error
    currentStep,      \* onboarding page: currentStep
    pillars,          \* onboarding page: pillars, per step index
    memories,         \* dashboard: memories
    filteredMemories, \* dashboard (first version): filteredMemories
    selectedCategory, \* dashboard (first version): selectedCategory
    loading,          \* dashboard: loading
    searchLoading,    \* dashboard (second version): searchLoading
    searchMode,       \* dashboard (first version): searchMode
    directAnswer,     \* dashboard (first version): directAnswer
    results,          \* NavbarSearch: results
    isOpen,           \* NavbarSearch: isOpen
    resp,             \* SpecData: the response body under consideration
    calendar,         \* CalendarHeatMap: currentDate, isMobile; the clock and time zone
    input,            \* MemoryInput: content, photos
    afterFailure      \* a request has failed, and since then the user has done nothing and
                      \* the session has not changed

sessVars == <<jwt, status, session, issued, expired>>
navVars  == <<route, pendingNav, dashVariant, effectDue, inflight>>
onbVars  == <<pageReady, onbLoading, onbError, currentStep, pillars>>
listVars == <<memories, filteredMemories, selectedCategory, searchMode, directAnswer>>
dashVars == <<memories, filteredMemories, selectedCategory, loading, searchLoading,
              searchMode, directAnswer, results, isOpen>>
vars == <<jwt, status, session, issued, expired, route, pendingNav, dashVariant, effectDue,
          inflight, ev, rejected, pageReady, onbLoading, onbError, currentStep, pillars,
          memories, filteredMemories, selectedCategory, loading, searchLoading,
          searchMode, directAnswer, results, isOpen, resp, calendar, input, afterFailure>>

----------------------------------------------------------------------------
(* Bounds *)

MaxTokens == 2      \* access tokens the backend issues in one run
MaxInflight == 2    \* requests in flight at the same time
MaxId == 2          \* memory ids 1..MaxId
MaxLen == 3         \* longest response body of SpecData
MaxPillars == 1     \* pillars entered per onboarding step
MaxMonths == 2      \* months the calendar is paged over, from January 2026 on
MaxCalendarLen == 2 \* longest memory list of SpecCalendar
MaxCount == 7       \* longest memory list of SpecIntensity
MaxSelect == 2      \* files of one selection or drop

----------------------------------------------------------------------------
(* Memories *)

NoScore == -1            \* similarity_score absent
ScoreFloor == 10         \* 0.1
AnswerThreshold == 80    \* 0.8

\* scores a response may carry: absent, 0, 0.09, 0.1
UniverseScores == {NoScore, 0, 9, 10}

MonthNames == {"March", "march", "May"}
DayNumbers == {"3", "3rd", "15th"}
NoContent == <<>>
DateContent == <<"Born", "March", "3rd">>

\* A memory as the client reads it: id, similarity_score, categories, content.
Memory(i, s, cs, c) == [id |-> i, score |-> s, categories |-> cs, content |-> c]

CategorySets == {{"work"}, {"all", "family"}}

\* Every score on a memory of {"work"}, every category set on a memory without
\* a score.
MemoryUniverse ==
    {Memory(i, s, {"work"}, NoContent) : i \in 1..MaxId, s \in UniverseScores}
        \cup {Memory(i, NoScore, cs, NoContent) : i \in 1..MaxId, cs \in CategorySets}

RECURSIVE SeqsUpTo(_, _)
SeqsUpTo(S, n) ==
    IF n = 0 THEN {<<>>}
    ELSE LET shorter == SeqsUpTo(S, n - 1)
         IN  shorter \cup {Append(s, x) : s \in {t \in shorter : Len(t) = n - 1}, x \in S}

ResponseBodies == SeqsUpTo(MemoryUniverse, MaxLen)

\* JavaScript truthiness of similarity_score: undefined and 0 are falsy.
Falsy(score) == score = NoScore \/ score = 0

\* self.findIndex(m => m.id === id): the first index holding the id.
FindIndex(data, id) ==
    CHOOSE i \in 1..Len(data) :
        data[i].id = id /\ \A j \in 1..(i - 1) : data[j].id # id

RECURSIVE KeepIndices(_, _, _)
\* data.filter((memory, index) => index \in keep), scanning from index i.
KeepIndices(data, keep, i) ==
    IF i > Len(data) THEN <<>>
    ELSE IF i \in keep THEN <<data[i]>> \o KeepIndices(data, keep, i + 1)
    ELSE KeepIndices(data, keep, i + 1)

\* data.filter((memory, index, self) => index === self.findIndex(m => m.id === memory.id))
UniqueResults(data) ==
    KeepIndices(data, {i \in 1..Len(data) : i = FindIndex(data, data[i].id)}, 1)

ScoreKept(m) == Falsy(m.score) \/ m.score >= ScoreFloor

\* list.filter(memory => !memory.similarity_score || memory.similarity_score >= 0.1)
FilteredData(list) == SelectSeq(list, ScoreKept)

\* What the first dashboard stores for a search response.
SearchStore(data) == FilteredData(UniqueResults(data))

\* What the second dashboard hands to NavbarSearch for a search response.
NavbarSearchStore(data) == FilteredData(data)

\* a recency store that post-processes like a search
RecentStoreFiltered(data) == SearchStore(data)

\* What fetchRecentMemories stores for a response.
RecentStore(data) == data

HasCategory(ms, c) == SelectSeq(ms, LAMBDA m : c \in m.categories)

\* a filter that keeps the memories lacking the category
FilterByCategoryInverted(ms, c) ==
    IF c = "all" THEN ms ELSE SelectSeq(ms, LAMBDA m : c \notin m.categories)

\* a filter that treats 'all' like any other category name
FilterByCategoryNoSentinel(ms, c) == HasCategory(ms, c)

\* The category filter effect.
FilterByCategory(ms, c) == IF c = "all" THEN ms ELSE HasCategory(ms, c)

\* Array.from(new Set(memories.flatMap(memory => memory.categories)))
Categories(ms) == UNION {ms[i].categories : i \in 1..Len(ms)}

\* CategoryFilter: the buttons offered.
AllCategories(ms) == {"all"} \cup Categories(ms)

----------------------------------------------------------------------------
(* Queries and the direct answer *)

EmptyQuery == <<>>
BlankQuery == <<" ">>
Queries == {EmptyQuery, BlankQuery, <<"work", "meetings">>, <<"When", "Is", "it">>}

\* query.trim() is empty
TrimEmpty(q) == \A i \in 1..Len(q) : q[i] = " "

\* toLowerCase on the words that occur
ToLowerCase(w) == IF w = "When" THEN "when" ELSE IF w = "Is" THEN "is" ELSE w

\* query.toLowerCase().includes('when is')
IncludesWhenIs(q) ==
    \E i \in 1..(Len(q) - 1) : ToLowerCase(q[i]) = "when" /\ ToLowerCase(q[i + 1]) = "is"

NoAnswer == <<>>

\* content.match(/\b(January|...|December)\s+\d{1,2}(th|st|nd|rd)?\b/i): the
\* first month name that is followed by a day number, with that number.
DateMatch(content) ==
    LET hits == {i \in 1..(Len(content) - 1) :
                    content[i] \in MonthNames /\ content[i + 1] \in DayNumbers}
    IN  IF hits = {} THEN NoAnswer
        ELSE LET i == CHOOSE k \in hits : \A l \in hits : k <= l
             IN  <<content[i], content[i + 1]>>

\* the heuristic with a threshold that 0.80 itself passes
ExtractAnswerAtThreshold(query, filteredData) ==
    IF IncludesWhenIs(query) /\ Len(filteredData) > 0
    THEN LET bestMatch == filteredData[1]
         IN  IF ~Falsy(bestMatch.score) /\ bestMatch.score >= AnswerThreshold
             THEN DateMatch(bestMatch.content)
             ELSE NoAnswer
    ELSE NoAnswer

\* The direct answer the heuristic of searchMemories extracts from filteredData.
ExtractAnswer(query, filteredData) ==
    IF IncludesWhenIs(query) /\ Len(filteredData) > 0
    THEN LET bestMatch == filteredData[1]
         IN  IF ~Falsy(bestMatch.score) /\ bestMatch.score > AnswerThreshold
             THEN DateMatch(bestMatch.content)
             ELSE NoAnswer
    ELSE NoAnswer

----------------------------------------------------------------------------
(* Calendar: components/CalendarHeatMap.tsx *)

\* Dates are instants, in hours since 00:00 UTC of 1 December 2025; months are
\* numbered from that December on (0 = December 2025, 1 = January 2026, ...).

StripDays == 14     \* days of the two-week strip of the mobile layout

MonthLengths == <<31, 28, 31, 30, 31, 30, 31, 31, 30, 31, 30, 31>>

\* days of month k
DaysIn(k) == MonthLengths[((k + 11) % 12) + 1]

\* the day number of the first day of month k
RECURSIVE MonthStart(_)
MonthStart(k) == IF k = 0 THEN 0 ELSE MonthStart(k - 1) + DaysIn(k - 1)

\* the first days of the months the calendar can show, and of the next ones
MonthStarts == [k \in 0..(MaxMonths + 3) |-> MonthStart(k)]

\* the local calendar day an instant falls on, in the time zone of the browser
LocalDay(t) == (t + calendar.tz) \div 24

\* Date.getMonth() with getFullYear(): the month the local day lies in
GetMonth(t) ==
    LET day == LocalDay(t)
    IN  CHOOSE k \in 0..(MaxMonths + 2) : MonthStarts[k] <= day /\ day < MonthStarts[k + 1]

\* Date.getDate()
GetDate(t) == LocalDay(t) - MonthStarts[GetMonth(t)] + 1

\* Date.getDay(): 0 = Sunday; 1 December 2025 is a Monday
GetDay(t) == (LocalDay(t) + 1) % 7

\* Date.toDateString(): weekday, month with year, day of the month
ToDateString(t) == <<GetDay(t), GetMonth(t), GetDate(t)>>

\* new Date(year, month, day) read as UTC midnight
NewDateUtc(k, d) == (MonthStart(k) + d - 1) * 24

\* new Date(year, month, day): local midnight; day 0 and days past the end of
\* the month roll over
NewDate(k, d) == (MonthStart(k) + d - 1) * 24 - calendar.tz

\* date.setDate(n): the day of the month replaced, rolling over
SetDate(t, n) == t + (n - GetDate(t)) * 24

\* created_at, an ISO timestamp <<day, hour>> in UTC
Timestamp(k, d, h) == <<MonthStart(k) + d - 1, h>>

\* new Date(memory.created_at)
ParseDate(createdAt) == createdAt[1] * 24 + createdAt[2]

\* the memory fields the calendar reads
CalendarMemory(i, createdAt) == [id |-> i, created_at |-> createdAt]

\* getMemoriesForDate(date), as the indices of the memories it returns
GetMemoriesForDate(date) ==
    LET dateString == ToDateString(date)
    IN  {i \in 1..Len(memories) :
            ToDateString(ParseDate(memories[i].created_at)) = dateString}

\* getHeatMapIntensity with the second boundary moved from 3 to 2
GetHeatMapIntensityShifted(memoriesCount) ==
    IF memoriesCount = 0 THEN "bg-gray-50 hover:bg-gray-100"
    ELSE IF memoriesCount = 1 THEN "bg-purple-100 hover:bg-purple-200"
    ELSE IF memoriesCount < 3 THEN "bg-purple-200 hover:bg-purple-300"
    ELSE IF memoriesCount <= 5 THEN "bg-purple-300 hover:bg-purple-400"
    ELSE "bg-purple-400 hover:bg-purple-500"

\* getHeatMapIntensity(memoriesCount): the colour classes of a day cell
GetHeatMapIntensity(memoriesCount) ==
    IF memoriesCount = 0 THEN "bg-gray-50 hover:bg-gray-100"
    ELSE IF memoriesCount = 1 THEN "bg-purple-100 hover:bg-purple-200"
    ELSE IF memoriesCount <= 3 THEN "bg-purple-200 hover:bg-purple-300"
    ELSE IF memoriesCount <= 5 THEN "bg-purple-300 hover:bg-purple-400"
    ELSE "bg-purple-400 hover:bg-purple-500"

\* lastDayOfMonth.getDate()
daysInMonth == GetDate(NewDate(GetMonth(calendar.currentDate) + 1, 0))

\* renderCalendarDays: the dates of the day cells, in rendering order
CalendarCells ==
    IF calendar.isMobile
    THEN LET startOfWeek == SetDate(calendar.currentDate,
                                    GetDate(calendar.currentDate) - GetDay(calendar.currentDate))
         IN  [i \in 1..StripDays |-> SetDate(startOfWeek, GetDate(startOfWeek) + (i - 1))]
    ELSE [day \in 1..daysInMonth |-> NewDate(GetMonth(calendar.currentDate), day)]

\* useState(new Date()) with the window at desktop width
CalendarAt(now, tz) == [currentDate |-> now, isMobile |-> FALSE, now |-> now, tz |-> tz]

DefaultCalendar == CalendarAt(ParseDate(Timestamp(1, 15, 10)), 0)

----------------------------------------------------------------------------
(* MemoryInput: components/MemoryInput.tsx *)

MaxPhotos == 5                      \* slice(0, 5)
MaxPhotoBytes == 10485760           \* 10 * 1024 * 1024, the 10MB limit

\* a File: its name, its MIME type as <<type, subtype>>, its size in bytes
File(name, type, size) == [name |-> name, type |-> type, size |-> size]

\* file.type.startsWith('image/')
StartsWithImage(type) == type[1] = "image"

\* the filter of handleFileSelect with the size test dropped
ValidFileAnySize(file) == StartsWithImage(file.type)

\* the filter of handleFileSelect
ValidFile(file) == StartsWithImage(file.type) /\ file.size <= MaxPhotoBytes

\* array.slice(0, n)
Slice(s, n) == SubSeq(s, 1, IF Len(s) < n THEN Len(s) ELSE n)

\* [...prev, ...validFiles].slice(0, 5)
AddPhotos(prev, files) == Slice(prev \o SelectSeq(files, ValidFile), MaxPhotos)

\* prev.filter((_, i) => i !== index), index counted from 1
WithoutPhoto(prev, index) ==
    [k \in 1..(Len(prev) - (IF index \in 1..Len(prev) THEN 1 ELSE 0)) |->
        IF k < index THEN prev[k] ELSE prev[k + 1]]

\* string.trim() on a text of words and blanks
RECURSIVE TrimStart(_)
TrimStart(q) == IF q # <<>> /\ Head(q) = " " THEN TrimStart(Tail(q)) ELSE q

RECURSIVE TrimEnd(_)
TrimEnd(q) == IF q # <<>> /\ q[Len(q)] = " " THEN TrimEnd(SubSeq(q, 1, Len(q) - 1)) ELSE q

Trim(q) == TrimEnd(TrimStart(q))

\* useState(''), useState<File[]>([])
EmptyInput == [content |-> <<>>, photos |-> <<>>]

\* the test of handleSubmit without the loading flag
SubmitAcceptedWhileLoading == Trim(input.content) # <<>> \/ Len(input.photos) > 0

\* (content.trim() || photos.length > 0) && !loading
SubmitAccepted == (Trim(input.content) # <<>> \/ Len(input.photos) > 0) /\ ~loading

----------------------------------------------------------------------------
(* State changes of the dashboard on a successful response *)

Event(view, op, outcome) == [view |-> view, op |-> op, outcome |-> outcome]

\* fetchRecentMemories, response.ok branch, first dashboard.
RecentOkV1(data) ==
    /\ memories' = RecentStore(data)
    /\ searchMode' = FALSE
    /\ directAnswer' = NoAnswer
    /\ filteredMemories' = FilterByCategory(memories', selectedCategory)
    /\ UNCHANGED <<selectedCategory, results, isOpen>>

\* fetchRecentMemories, response.ok branch, second dashboard.
RecentOkV2(data) ==
    /\ memories' = RecentStore(data)
    /\ UNCHANGED <<filteredMemories, selectedCategory, searchMode, directAnswer,
                   results, isOpen>>

\* searchMemories, response.ok branch, first dashboard, with the direct
\* answer `shown` on screen: setDirectAnswer is called only with a match.
SearchOkV1From(shown, query, data) ==
    /\ memories' = SearchStore(data)
    /\ searchMode' = TRUE
    /\ directAnswer' = LET answer == ExtractAnswer(query, SearchStore(data))
                       IN  IF answer = NoAnswer THEN shown ELSE answer
    /\ filteredMemories' = FilterByCategory(memories', selectedCategory)
    /\ UNCHANGED <<selectedCategory, results, isOpen>>

\* searchMemories, response.ok branch, first dashboard.
SearchOkV1(query, data) == SearchOkV1From(directAnswer, query, data)

\* searchMemories of the second dashboard returning to NavbarSearch.handleSubmit.
SearchOkV2(data) ==
    /\ results' = NavbarSearchStore(data)
    /\ isOpen' = TRUE
    /\ UNCHANGED listVars

\* CategoryFilter onSelect followed by the category filter effect.
SelectCategory(c) ==
    /\ selectedCategory' = c
    /\ filteredMemories' = FilterByCategory(memories, c)
    /\ UNCHANGED <<memories, searchMode, directAnswer, results, isOpen>>

----------------------------------------------------------------------------
(* Session: lib/auth.ts and useSession *)

NoToken == 0
NoSession == [present |-> FALSE, accessToken |-> NoToken]

\* a session or JWT that exists, with the given accessToken (NoToken: none)
SessionWith(tok) == [present |-> TRUE, accessToken |-> tok]

\* a signIn callback that lets a rejected exchange through
SignInCallbackOpen(provider, outcome, accessToken) ==
    IF provider = "google"
    THEN [result |-> outcome # "throws", userToken |-> NoToken]
    ELSE [result |-> FALSE, userToken |-> NoToken]

\* callbacks.signIn: the result, and the accessToken it attaches to the user.
\* outcome is what POST /auth/nextauth did: "ok", "notok" or "throws".
SignInCallback(provider, outcome, accessToken) ==
    IF provider = "google"
    THEN IF outcome = "ok"
         THEN [result |-> TRUE, userToken |-> accessToken]
         ELSE [result |-> FALSE, userToken |-> NoToken]
    ELSE [result |-> FALSE, userToken |-> NoToken]

\* callbacks.jwt copying the user's accessToken whether it is there or not
JwtCallbackOverwriting(token, userToken) == [token EXCEPT !.accessToken = userToken]

\* callbacks.jwt; userToken is NoToken on every call but the one of the sign-in
JwtCallback(token, userToken) ==
    IF userToken # NoToken THEN [token EXCEPT !.accessToken = userToken] ELSE token

\* callbacks.session
SessionCallback(sess, token) ==
    IF token.accessToken # NoToken
    THEN [sess EXCEPT !.accessToken = token.accessToken]
    ELSE sess

\* (session as any)?.accessToken is falsy
NoAccessToken(sess) == ~sess.present \/ sess.accessToken = NoToken

\* the bearer token a handler reads from the session
BearerOf(sess) == IF sess.present THEN sess.accessToken ELSE NoToken

----------------------------------------------------------------------------
(* Requests and navigation *)

Routes == {"/", "/auth/signin", "/auth/error", "/onboarding", "/dashboard"}

NoBody == <<>>

Request(view, op, token, query) ==
    [view |-> view, op |-> op, token |-> token, mounted |-> TRUE, query |-> query,
     body |-> NoBody, overtakenBy |-> "none"]

Remove(q, i) == SubSeq(q, 1, i - 1) \o SubSeq(q, i + 1, Len(q))

\* the page that sent these requests is gone; its handlers still run
Unmount(q) == [k \in DOMAIN q |-> [q[k] EXCEPT !.mounted = FALSE]]

\* what the backend answers to a request: 401 exactly when it does not accept
\* the bearer token; a server error or a network failure at any time
Outcomes(r) ==
    (IF r.token \in (1..issued) \ expired THEN {"ok"} ELSE {"unauthorized"})
        \cup {"server", "network"}

EmptyPillars == [k \in 0..2 |-> <<>>]

ResetOnboarding ==
    /\ pageReady' = FALSE /\ onbLoading' = FALSE /\ onbError' = "none"
    /\ currentStep' = 0 /\ pillars' = EmptyPillars

ResetDashboard ==
    /\ memories' = <<>> /\ filteredMemories' = <<>> /\ selectedCategory' = "all"
    /\ loading' = FALSE /\ searchLoading' = FALSE
    /\ searchMode' = FALSE /\ directAnswer' = NoAnswer
    /\ results' = <<>> /\ isOpen' = FALSE

ResetViews == ResetOnboarding /\ ResetDashboard

viewVars == <<pageReady, onbLoading, onbError, currentStep, pillars,
              memories, filteredMemories, selectedCategory, loading, searchLoading,
              searchMode, directAnswer, results, isOpen>>

\* no navigation is under way: the page shown takes events
Settled == pendingNav = "none"

\* router.replace / router.push to target, the requests q staying in flight;
\* the handler runs on, the page changes afterwards (CommitNavigation)
GoTo(target, q) ==
    /\ inflight' = q
    /\ pendingNav' = IF target = route THEN pendingNav ELSE target
    /\ UNCHANGED <<route, effectDue>>

\* a full page load of target: scripts, requests and the session state restart
FullLoad(target) ==
    /\ route' = target
    /\ pendingNav' = "none"
    /\ status' = "loading"
    /\ session' = NoSession
    /\ inflight' = <<>>
    /\ effectDue' = TRUE
    /\ ResetViews

Init ==
    /\ jwt = NoSession /\ status = "loading" /\ session = NoSession
    /\ issued = 0 /\ expired = {}
    /\ route \in Routes \ {"/auth/error"}
    /\ pendingNav = "none"
    /\ dashVariant \in {"v1", "v2"}
    /\ effectDue = TRUE /\ inflight = <<>>
    /\ ev = Event("browser", "open", "none")
    /\ rejected = FALSE
    /\ pageReady = FALSE /\ onbLoading = FALSE /\ onbError = "none"
    /\ currentStep = 0 /\ pillars = EmptyPillars
    /\ memories = <<>> /\ filteredMemories = <<>> /\ selectedCategory = "all"
    /\ loading = FALSE /\ searchLoading = FALSE
    /\ searchMode = FALSE /\ directAnswer = NoAnswer
    /\ results = <<>> /\ isOpen = FALSE
    /\ resp = <<>>
    /\ calendar = DefaultCalendar
    /\ input = EmptyInput
    /\ afterFailure = FALSE

\* The navigation started by router.replace / router.push completes: the page
\* is replaced, the old page's requests stay in flight.
CommitNavigation ==
    /\ pendingNav # "none"
    /\ route' = pendingNav
    /\ pendingNav' = "none"
    /\ inflight' = Unmount(inflight)
    /\ effectDue' = TRUE
    /\ ResetViews
    /\ ev' = Event("browser", "navigate", "none")
    /\ UNCHANGED <<sessVars, dashVariant, rejected, resp, calendar, input>>
    /\ UNCHANGED afterFailure

\* The user opens a page of the application by its address.
OpenUrl(target) ==
    /\ Settled
    /\ FullLoad(target)
    /\ ev' = Event("browser", "open", "none")
    /\ UNCHANGED <<jwt, issued, expired, dashVariant, rejected, resp, calendar, input>>
    /\ afterFailure' = FALSE

\* SessionProvider: the session request of useSession completes.
ResolveSession ==
    /\ Settled /\ status = "loading"
    /\ status' = IF jwt.present THEN "authenticated" ELSE "unauthenticated"
    /\ jwt' = IF jwt.present THEN JwtCallback(jwt, NoToken) ELSE jwt
    /\ session' = IF jwt.present THEN SessionCallback(SessionWith(NoToken), jwt') ELSE NoSession
    /\ effectDue' = TRUE
    /\ ev' = Event("browser", "resolve", "none")
    /\ UNCHANGED <<issued, expired, route, pendingNav, dashVariant, inflight, rejected,
                   viewVars, resp, calendar, input>>
    /\ UNCHANGED afterFailure

\* The backend stops accepting an access token.
ExpireToken(t) ==
    /\ Settled
    /\ t \in (1..issued) \ expired
    /\ expired' = expired \cup {t}
    /\ ev' = Event("backend", "expire", "none")
    /\ UNCHANGED <<jwt, status, session, issued, navVars, rejected, viewVars, resp, calendar, input>>
    /\ UNCHANGED afterFailure

----------------------------------------------------------------------------
(* Sign-in page *)

\* SignIn, auto-redirect effect.
SignInEffect ==
    /\ Settled /\ route = "/auth/signin" /\ effectDue
    /\ IF status = "authenticated" /\ ~NoAccessToken(session)
       THEN /\ FullLoad("/")
            /\ ev' = Event("signin", "effect", "redirect")
       ELSE /\ effectDue' = FALSE
            /\ ev' = Event("signin", "effect", "none")
            /\ UNCHANGED <<status, session, route, pendingNav, inflight, viewVars>>
    /\ UNCHANGED <<jwt, issued, expired, dashVariant, rejected, resp, calendar, input>>
    /\ UNCHANGED afterFailure

\* handleGoogleSignIn: signIn('google', {redirect: true, callbackUrl: '/'}), the
\* provider round trip and callbacks.signIn / callbacks.jwt on the way back.
\* fresh: the backend's answer carries a newly issued access_token.
GoogleSignIn(provider, outcome, fresh) ==
    /\ Settled /\ route = "/auth/signin" /\ status # "loading" /\ ~effectDue
    /\ fresh => issued < MaxTokens
    /\ LET tok == IF fresh THEN issued + 1 ELSE NoToken
           cb  == SignInCallback(provider, outcome, tok)
       IN  /\ issued' = IF fresh /\ outcome = "ok" /\ provider = "google" THEN issued + 1 ELSE issued
           /\ IF cb.result
              THEN /\ jwt' = JwtCallback(SessionWith(NoToken), cb.userToken)
                   /\ rejected' = FALSE
                   /\ FullLoad("/")
              ELSE /\ FullLoad("/auth/error")
                   /\ UNCHANGED <<jwt, rejected>>
           /\ ev' = [view |-> "signin", op |-> "signIn",
                     outcome |-> IF cb.result THEN "true" ELSE "false",
                     provider |-> provider, exchange |-> outcome,
                     userToken |-> cb.userToken]
    /\ UNCHANGED <<expired, dashVariant, resp, calendar, input>>
    /\ afterFailure' = FALSE

----------------------------------------------------------------------------
(* Landing dispatcher: app/page.tsx *)

\* handleRedirect up to the fetch.
LandingEffect ==
    /\ Settled /\ route = "/" /\ effectDue
    /\ IF status = "loading"
       THEN /\ effectDue' = FALSE
            /\ ev' = Event("landing", "effect", "waiting")
            /\ UNCHANGED <<route, pendingNav, inflight, viewVars>>
       ELSE IF NoAccessToken(session)
       THEN /\ GoTo("/auth/signin", inflight)
            /\ ev' = Event("landing", "effect", "redirect")
            /\ UNCHANGED viewVars
       ELSE /\ Len(inflight) < MaxInflight
            /\ inflight' = Append(inflight, Request("landing", "status", BearerOf(session), <<>>))
            /\ effectDue' = FALSE
            /\ ev' = Event("landing", "effect", "sent")
            /\ UNCHANGED <<route, pendingNav, viewVars>>
    /\ UNCHANGED <<sessVars, dashVariant, rejected, resp, calendar, input>>
    /\ UNCHANGED afterFailure

\* the dispatcher staying on the landing page when the status request fails
\* on the network
LandingResponseStaying(i, outcome, completed) ==
    /\ Settled
    /\ i \in 1..Len(inflight)
    /\ inflight[i].view = "landing"
    /\ outcome \in Outcomes(inflight[i])
    /\ LET target == IF outcome = "unauthorized" THEN "/auth/signin"
                     ELSE IF outcome = "ok" /\ completed THEN "/dashboard"
                     ELSE IF outcome = "network" THEN route
                     ELSE "/onboarding"
       IN  GoTo(target, Remove(inflight, i))
    /\ rejected' = (rejected \/ outcome = "unauthorized")
    /\ ev' = Event("landing", "status", outcome)
    /\ UNCHANGED <<sessVars, dashVariant, viewVars, resp, calendar, input>>
    /\ afterFailure' = IF outcome = "ok" THEN afterFailure ELSE session' = session

\* handleRedirect from the response of GET /onboarding/status on.
LandingResponse(i, outcome, completed) ==
    /\ Settled
    /\ i \in 1..Len(inflight)
    /\ inflight[i].view = "landing"
    /\ outcome \in Outcomes(inflight[i])
    /\ LET target == IF outcome = "unauthorized" THEN "/auth/signin"
                     ELSE IF outcome = "ok" /\ completed THEN "/dashboard"
                     ELSE "/onboarding"
       IN  GoTo(target, Remove(inflight, i))
    /\ rejected' = (rejected \/ outcome = "unauthorized")
    /\ ev' = Event("landing", "status", outcome)
    /\ UNCHANGED <<sessVars, dashVariant, viewVars, resp, calendar, input>>
    /\ afterFailure' = IF outcome = "ok" THEN afterFailure ELSE session' = session

----------------------------------------------------------------------------
(* Onboarding page: app/onboarding/page.tsx *)

PillarNames == {"mom"}
LastStep == 2       \* steps.length - 1

\* a signOut that leaves the session in place
SignOutSkipped == UNCHANGED <<jwt, session, status>>

\* signOut({ redirect: false }): the cookie and the client session are gone
SignOutHere ==
    /\ jwt' = NoSession
    /\ session' = NoSession
    /\ status' = "unauthenticated"

\* checkAuth up to the fetch.
OnboardingEffect ==
    /\ Settled /\ route = "/onboarding" /\ effectDue
    /\ IF status = "loading"
       THEN /\ effectDue' = FALSE
            /\ ev' = Event("onboarding", "effect", "waiting")
            /\ UNCHANGED <<route, pendingNav, inflight, viewVars>>
       ELSE IF NoAccessToken(session)
       THEN /\ GoTo("/auth/signin", inflight)
            /\ ev' = Event("onboarding", "effect", "redirect")
            /\ UNCHANGED viewVars
       ELSE /\ Len(inflight) < MaxInflight
            /\ inflight' = Append(inflight, Request("onboarding", "status", BearerOf(session), <<>>))
            /\ effectDue' = FALSE
            /\ ev' = Event("onboarding", "effect", "sent")
            /\ UNCHANGED <<route, pendingNav, viewVars>>
    /\ UNCHANGED <<sessVars, dashVariant, rejected, resp, calendar, input>>
    /\ UNCHANGED afterFailure

\* checkAuth from the response of GET /onboarding/status on.
OnboardingStatusResponse(i, outcome, completed) ==
    /\ Settled
    /\ i \in 1..Len(inflight)
    /\ inflight[i].view = "onboarding" /\ inflight[i].op = "status"
    /\ outcome \in Outcomes(inflight[i])
    /\ LET r == inflight[i]
           rest == Remove(inflight, i)
       IN  IF outcome = "ok" /\ completed
           THEN /\ GoTo("/dashboard", rest)
                /\ UNCHANGED <<jwt, status, session, viewVars>>
           ELSE IF outcome = "unauthorized"
           THEN /\ SignOutHere
                /\ IF route = "/auth/signin"
                   THEN inflight' = rest /\ effectDue' = TRUE /\ UNCHANGED <<route, pendingNav>>
                   ELSE GoTo("/auth/signin", rest)
                /\ UNCHANGED viewVars
           ELSE /\ inflight' = rest
                /\ IF r.mounted
                   THEN /\ pageReady' = TRUE
                        /\ onbError' = IF outcome = "network" THEN "connection" ELSE onbError
                        /\ UNCHANGED <<onbLoading, currentStep, pillars>>
                   ELSE UNCHANGED onbVars
                /\ UNCHANGED <<jwt, status, session, route, pendingNav, effectDue, dashVars>>
    /\ rejected' = (rejected \/ outcome = "unauthorized")
    /\ ev' = Event("onboarding", "status", outcome)
    /\ UNCHANGED <<issued, expired, dashVariant, resp, calendar, input>>
    /\ afterFailure' = IF outcome = "ok" THEN afterFailure ELSE session' = session

\* canContinue without its last-step clause
canContinueNonEmpty == Len(pillars[currentStep]) > 0

\* pillars[currentStepData.id].length > 0 || currentStep === steps.length - 1
canContinue == Len(pillars[currentStep]) > 0 \/ currentStep = LastStep

\* addPillar with a non-blank input.
AddPillar(name) ==
    /\ Settled /\ route = "/onboarding" /\ pageReady /\ ~effectDue
    /\ Len(pillars[currentStep]) < MaxPillars
    /\ pillars' = [pillars EXCEPT ![currentStep] = Append(@, name)]
    /\ ev' = Event("onboarding", "addPillar", "none")
    /\ UNCHANGED <<sessVars, navVars, rejected, pageReady, onbLoading, onbError, currentStep,
                   dashVars, resp, calendar, input>>
    /\ afterFailure' = FALSE

\* removePillar(currentStepData.id, index)
RemovePillar(index) ==
    /\ Settled /\ route = "/onboarding" /\ pageReady /\ ~effectDue
    /\ index \in 1..Len(pillars[currentStep])
    /\ pillars' = [pillars EXCEPT ![currentStep] = Remove(@, index)]
    /\ ev' = Event("onboarding", "removePillar", "none")
    /\ UNCHANGED <<sessVars, navVars, rejected, pageReady, onbLoading, onbError, currentStep,
                   dashVars, resp, calendar, input>>
    /\ afterFailure' = FALSE

\* a Continue button that only loading disables
ContinueDisabledWhileLoading == onbLoading

\* disabled={!canContinue || loading} of the Continue button
ContinueDisabled == ~canContinue \/ onbLoading

\* disabled={currentStep === 0} of the Back button
BackDisabled == currentStep = 0

\* a Back that returns to the first step
HandleBackToStart ==
    /\ Settled /\ route = "/onboarding" /\ pageReady /\ ~effectDue
    /\ ~BackDisabled
    /\ currentStep' = 0
    /\ ev' = Event("onboarding", "back", "none")
    /\ UNCHANGED <<sessVars, navVars, rejected, pageReady, onbLoading, onbError, pillars,
                   dashVars, resp, calendar, input>>
    /\ afterFailure' = FALSE

\* handleBack behind its button (disabled at step 0).
HandleBack ==
    /\ Settled /\ route = "/onboarding" /\ pageReady /\ ~effectDue
    /\ ~BackDisabled
    /\ currentStep' = IF currentStep > 0 THEN currentStep - 1 ELSE currentStep
    /\ ev' = Event("onboarding", "back", "none")
    /\ UNCHANGED <<sessVars, navVars, rejected, pageReady, onbLoading, onbError, pillars,
                   dashVars, resp, calendar, input>>
    /\ afterFailure' = FALSE

\* handleNext behind the Continue button (disabled unless canContinue, and
\* while loading); on the last step it is handleSubmit up to the fetch.
HandleNext ==
    /\ Settled /\ route = "/onboarding" /\ pageReady /\ ~effectDue
    /\ ~ContinueDisabled
    /\ IF currentStep < LastStep
       THEN /\ currentStep' = currentStep + 1
            /\ ev' = Event("onboarding", "next", "none")
            /\ UNCHANGED <<inflight, onbLoading>>
       ELSE IF NoAccessToken(session)
       THEN /\ ev' = Event("onboarding", "submit", "nosend")
            /\ UNCHANGED <<inflight, onbLoading, currentStep>>
       ELSE /\ Len(inflight) < MaxInflight
            /\ inflight' = Append(inflight,
                   [Request("onboarding", "submit", BearerOf(session), <<>>)
                       EXCEPT !.body = pillars])
            /\ onbLoading' = TRUE
            /\ ev' = Event("onboarding", "submit", "sent")
            /\ UNCHANGED currentStep
    /\ UNCHANGED <<sessVars, route, pendingNav, dashVariant, effectDue, rejected, pageReady,
                   onbError, pillars, dashVars, resp, calendar, input>>
    /\ afterFailure' = FALSE

\* handleSubmit from the response of POST /onboarding/pillars on.
OnboardingSubmitResponse(i, outcome) ==
    /\ Settled
    /\ i \in 1..Len(inflight)
    /\ inflight[i].view = "onboarding" /\ inflight[i].op = "submit"
    /\ outcome \in Outcomes(inflight[i])
    /\ LET r == inflight[i]
           rest == Remove(inflight, i)
       IN  /\ IF r.mounted
              THEN /\ onbError' = CASE outcome = "ok" -> onbError
                                     [] outcome = "unauthorized" -> "expired"
                                     [] outcome = "server" -> "save"
                                     [] outcome = "network" -> "connection"
                   /\ onbLoading' = FALSE
                   /\ UNCHANGED <<pageReady, currentStep, pillars>>
              ELSE UNCHANGED onbVars
           /\ UNCHANGED dashVars
           /\ IF outcome = "ok"
              THEN /\ GoTo("/dashboard", rest)
                   /\ UNCHANGED <<jwt, status, session>>
              ELSE IF outcome = "unauthorized"
              THEN /\ SignOutHere
                   /\ IF route = "/auth/signin"
                      THEN inflight' = rest /\ effectDue' = TRUE /\ UNCHANGED <<route, pendingNav>>
                      ELSE GoTo("/auth/signin", rest)
              ELSE /\ inflight' = rest
                   /\ UNCHANGED <<jwt, status, session, route, pendingNav, effectDue>>
    /\ rejected' = (rejected \/ outcome = "unauthorized")
    /\ ev' = Event("onboarding", "submit", outcome)
    /\ UNCHANGED <<issued, expired, dashVariant, resp, calendar, input>>
    /\ afterFailure' = IF outcome = "ok" THEN afterFailure ELSE session' = session

----------------------------------------------------------------------------
(* Dashboard: app/dashboard/page.tsx (v1) and its second version (v2) *)

\* response bodies the backend answers with in Spec
SampleBodies ==
    { <<>>,
      <<Memory(1, 85, {"work"}, DateContent), Memory(1, 9, {"work"}, NoContent)>>,
      <<Memory(2, 9, {"family"}, NoContent)>> }

OnDashboard == Settled /\ route = "/dashboard" /\ status # "loading" /\ ~effectDue

\* a fetchRecentMemories whose getAuthHeaders throws outside the try block
FetchRecentCallThrowing ==
    IF NoAccessToken(session)
    THEN /\ loading' = TRUE
         /\ UNCHANGED inflight
    ELSE /\ Len(inflight) < MaxInflight
         /\ loading' = TRUE
         /\ inflight' = Append(inflight, Request("dashboard", "recent", BearerOf(session), <<>>))

\* fetchRecentMemories up to the fetch: getAuthHeaders throws without a token,
\* the catch logs it and loading goes back to false.
FetchRecentCall ==
    IF NoAccessToken(session)
    THEN /\ loading' = FALSE
         /\ UNCHANGED inflight
    ELSE /\ Len(inflight) < MaxInflight
         /\ loading' = TRUE
         /\ inflight' = Append(inflight, Request("dashboard", "recent", BearerOf(session), <<>>))

SentOrNot == IF NoAccessToken(session) THEN "nosend" ELSE "sent"

\* The authentication effect of the dashboard.
DashboardEffect ==
    /\ Settled /\ route = "/dashboard" /\ effectDue
    /\ IF status = "loading"
       THEN /\ effectDue' = FALSE
            /\ ev' = Event("dashboard", "effect", "waiting")
            /\ UNCHANGED <<route, pendingNav, inflight, viewVars>>
       ELSE IF ~session.present
       THEN /\ GoTo("/auth/signin", inflight)
            /\ ev' = Event("dashboard", "effect", "redirect")
            /\ UNCHANGED viewVars
       ELSE /\ FetchRecentCall
            /\ effectDue' = FALSE
            /\ ev' = Event("dashboard", "effect", SentOrNot)
            /\ UNCHANGED <<route, pendingNav, onbVars, memories, filteredMemories, selectedCategory,
                           searchLoading, searchMode, directAnswer, results, isOpen>>
    /\ UNCHANGED <<sessVars, dashVariant, rejected, resp, calendar, input>>
    /\ UNCHANGED afterFailure

\* The Show All button of the first dashboard: fetchRecentMemories.
ShowAll ==
    /\ OnDashboard /\ dashVariant = "v1" /\ searchMode
    /\ FetchRecentCall
    /\ ev' = Event("dashboard", "recent", SentOrNot)
    /\ UNCHANGED <<sessVars, route, pendingNav, dashVariant, effectDue, rejected, onbVars, memories,
                   filteredMemories, selectedCategory, searchLoading, searchMode,
                   directAnswer, results, isOpen, resp, calendar, input>>
    /\ afterFailure' = FALSE

\* addMemory(content, photos) up to the fetch.  The first dashboard sends the
\* content only; the second builds the Authorization header from the session
\* without looking at it and sends the photos too.
AddMemoryCall(content, photos) ==
    IF dashVariant = "v1" /\ NoAccessToken(session)
    THEN /\ loading' = FALSE
         /\ ev' = Event("dashboard", "create", "nosend")
         /\ UNCHANGED inflight
    ELSE /\ Len(inflight) < MaxInflight
         /\ loading' = TRUE
         /\ inflight' = Append(inflight,
                [Request("dashboard", "create", BearerOf(session), <<>>) EXCEPT
                    !.body = [content |-> content,
                              photos |-> IF dashVariant = "v1" THEN <<>> ELSE photos]])
         /\ ev' = Event("dashboard", "create", "sent")

\* A memory typed into MemoryInput and submitted, as one step: handleSubmit
\* (refused while loading) calls addMemory and empties the input again.
AddMemory ==
    /\ OnDashboard /\ ~loading
    /\ AddMemoryCall(<<"lunch">>, <<>>)
    /\ UNCHANGED <<sessVars, route, pendingNav, dashVariant, effectDue, rejected, onbVars, memories,
                   filteredMemories, selectedCategory, searchLoading, searchMode,
                   directAnswer, results, isOpen, resp, calendar, input>>
    /\ afterFailure' = FALSE

\* SearchBar of the first dashboard calling searchMemories(query), up to the
\* fetch.  control: "submit" (the form, disabled while loading), "suggestion"
\* or "clear" (buttons that are never disabled).
SearchV1(query, control) ==
    /\ OnDashboard /\ dashVariant = "v1"
    /\ control = "submit" => ~loading
    /\ control = "suggestion" => ~TrimEmpty(query)
    /\ control = "clear" => query = EmptyQuery
    /\ IF TrimEmpty(query)
       THEN /\ FetchRecentCall
            /\ directAnswer' = NoAnswer
            /\ ev' = Event("dashboard", "search", IF NoAccessToken(session) THEN "nosend"
                                                   ELSE "sentRecent")
       ELSE /\ directAnswer' = NoAnswer
            /\ IF NoAccessToken(session)
               THEN /\ loading' = FALSE
                    /\ ev' = Event("dashboard", "search", "nosend")
                    /\ UNCHANGED inflight
               ELSE /\ Len(inflight) < MaxInflight
                    /\ loading' = TRUE
                    /\ inflight' = Append(inflight,
                                      Request("dashboard", "search", BearerOf(session), query))
                    /\ ev' = Event("dashboard", "search", "sent")
    /\ UNCHANGED <<sessVars, route, pendingNav, dashVariant, effectDue, rejected, onbVars, memories,
                   filteredMemories, selectedCategory, searchLoading, searchMode,
                   results, isOpen, resp, calendar, input>>
    /\ afterFailure' = FALSE

\* NavbarSearch.handleSubmit of the second dashboard (refused for a blank
\* query, its button disabled while searchLoading) calling searchMemories, up
\* to the fetch; without a token searchMemories returns [] at once.
SearchV2(query) ==
    /\ OnDashboard /\ dashVariant = "v2"
    /\ ~TrimEmpty(query) /\ ~searchLoading
    /\ IF NoAccessToken(session)
       THEN /\ searchLoading' = FALSE
            /\ results' = <<>>
            /\ isOpen' = TRUE
            /\ ev' = Event("dashboard", "search", "nosend")
            /\ UNCHANGED inflight
       ELSE /\ Len(inflight) < MaxInflight
            /\ searchLoading' = TRUE
            /\ inflight' = Append(inflight,
                              Request("dashboard", "search", BearerOf(session), query))
            /\ ev' = Event("dashboard", "search", "sent")
            /\ UNCHANGED <<results, isOpen>>
    /\ UNCHANGED <<sessVars, route, pendingNav, dashVariant, effectDue, rejected, onbVars, memories,
                   filteredMemories, selectedCategory, loading, searchMode, directAnswer, resp, calendar, input>>
    /\ afterFailure' = FALSE

\* CategoryFilter of the first dashboard.
ChooseCategory(c) ==
    /\ OnDashboard /\ dashVariant = "v1"
    /\ c \in AllCategories(memories)
    /\ SelectCategory(c)
    /\ ev' = Event("dashboard", "select", "none")
    /\ UNCHANGED <<sessVars, navVars, rejected, onbVars, loading, searchLoading, resp, calendar, input>>
    /\ afterFailure' = FALSE

\* handleSignOut: signOut({ callbackUrl: '/auth/signin' })
HandleSignOut ==
    /\ OnDashboard
    /\ jwt' = NoSession
    /\ FullLoad("/auth/signin")
    /\ ev' = Event("dashboard", "signOut", "none")
    /\ UNCHANGED <<issued, expired, dashVariant, rejected, resp, calendar, input>>
    /\ afterFailure' = FALSE

\* a failure branch that drops the list
RecentNotOkClearing(outcome) ==
    /\ memories' = <<>>
    /\ filteredMemories' = <<>>
    /\ UNCHANGED <<selectedCategory, searchMode, directAnswer, results, isOpen>>

\* fetchRecentMemories, a response that is not ok: 401 only navigates, the
\* rest is logged or ignored.
RecentNotOk(outcome) == UNCHANGED <<listVars, results, isOpen>>

\* request r, when answered ok, writes the memory list of the dashboard on
\* screen
WritesList(r) ==
    /\ r.view = "dashboard" /\ r.mounted
    /\ r.op = "recent" \/ (r.op = "search" /\ dashVariant = "v1")

\* the ok answer to request i has been applied: the requests issued before it
\* that are still in flight have been overtaken
Overtake(q, i) ==
    [k \in DOMAIN q |->
        IF k < i /\ WritesList(q[k]) THEN [q[k] EXCEPT !.overtakenBy = q[i].op] ELSE q[k]]

\* the setState calls of the handler of r are dropped once a later request
\* has been answered
AppliesUnlessOvertaken(r) == r.mounted /\ r.overtakenBy = "none"

\* the setState calls of the handler of r take effect
Applies(r) == r.mounted

\* The state a mounted dashboard is left in by a response; body is the
\* response body of an ok response.
DashboardApply(r, outcome, body) ==
    IF ~Applies(r) THEN UNCHANGED dashVars
    ELSE IF r.op = "recent"
    THEN /\ IF outcome = "ok"
            THEN IF dashVariant = "v1" THEN RecentOkV1(body) ELSE RecentOkV2(body)
            ELSE RecentNotOk(outcome)
         /\ loading' = FALSE
         /\ UNCHANGED searchLoading
    ELSE IF r.op = "create"
    THEN /\ loading' = (outcome = "ok")
         /\ UNCHANGED <<listVars, results, isOpen, searchLoading>>
    ELSE IF dashVariant = "v1"
    THEN /\ IF outcome = "ok"
            THEN SearchOkV1(r.query, body)
            ELSE UNCHANGED <<listVars, results, isOpen>>
         /\ loading' = FALSE
         /\ UNCHANGED searchLoading
    ELSE /\ IF outcome = "ok"
            THEN SearchOkV2(body)
            ELSE results' = <<>> /\ isOpen' = TRUE /\ UNCHANGED listVars
         /\ searchLoading' = FALSE
         /\ UNCHANGED loading

\* fetchRecentMemories / addMemory / searchMemories from the response on.  An
\* ok answer to addMemory goes on into fetchRecentMemories with the session
\* the handler was created with.
DashboardResponse(i, outcome, body) ==
    /\ Settled
    /\ i \in 1..Len(inflight)
    /\ inflight[i].view = "dashboard"
    /\ outcome \in Outcomes(inflight[i])
    /\ outcome # "ok" => body = <<>>
    /\ inflight[i].op = "create" => body = <<>>
    /\ LET r == inflight[i]
           rest == Remove(IF outcome = "ok" /\ WritesList(r) THEN Overtake(inflight, i)
                          ELSE inflight, i)
           next == IF r.op = "create" /\ outcome = "ok"
                   THEN Append(rest, [r EXCEPT !.op = "recent", !.body = NoBody])
                   ELSE rest
       IN  /\ DashboardApply(r, outcome, body)
           /\ IF outcome = "unauthorized"
              THEN GoTo("/auth/signin", next)
              ELSE inflight' = next /\ UNCHANGED <<route, pendingNav, effectDue>>
           /\ UNCHANGED onbVars
    /\ rejected' = (rejected \/ outcome = "unauthorized")
    /\ ev' = IF outcome = "ok"
             THEN [view |-> "dashboard", op |-> inflight[i].op, outcome |-> outcome,
                   stale |-> IF WritesList(inflight[i]) THEN inflight[i].overtakenBy
                             ELSE "none"]
             ELSE Event("dashboard", inflight[i].op, outcome)
    /\ UNCHANGED <<sessVars, dashVariant, resp, calendar, input>>
    /\ afterFailure' = IF outcome = "ok" THEN afterFailure ELSE session' = session

----------------------------------------------------------------------------
(* Spec: the client *)

Next ==
    \/ CommitNavigation
    \/ \E target \in Routes \ {"/auth/error"} : OpenUrl(target)
    \/ ResolveSession
    \/ \E t \in 1..MaxTokens : ExpireToken(t)
    \/ SignInEffect
    \/ \E provider \in {"google", "other"}, outcome \in {"ok", "notok", "throws"},
          fresh \in BOOLEAN : GoogleSignIn(provider, outcome, fresh)
    \/ LandingEffect
    \/ \E i \in 1..MaxInflight, outcome \in {"ok", "unauthorized", "server", "network"},
          completed \in BOOLEAN : LandingResponse(i, outcome, completed)
    \/ OnboardingEffect
    \/ \E i \in 1..MaxInflight, outcome \in {"ok", "unauthorized", "server", "network"},
          completed \in BOOLEAN : OnboardingStatusResponse(i, outcome, completed)
    \/ \E name \in PillarNames : AddPillar(name)
    \/ \E index \in 1..MaxPillars : RemovePillar(index)
    \/ HandleBack
    \/ HandleNext
    \/ \E i \in 1..MaxInflight, outcome \in {"ok", "unauthorized", "server", "network"} :
          OnboardingSubmitResponse(i, outcome)
    \/ DashboardEffect
    \/ ShowAll
    \/ AddMemory
    \/ \E query \in Queries, control \in {"submit", "suggestion", "clear"} :
          SearchV1(query, control)
    \/ \E query \in Queries : SearchV2(query)
    \/ \E c \in {"all", "work", "family"} : ChooseCategory(c)
    \/ HandleSignOut
    \/ \E i \in 1..MaxInflight, outcome \in {"ok", "unauthorized", "server", "network"},
          body \in SampleBodies : DashboardResponse(i, outcome, body)

Spec == Init /\ [][Next]_vars

----------------------------------------------------------------------------
(* SpecData: one response body, post-processed by the dashboard *)

InitData ==
    /\ resp \in ResponseBodies
    /\ dashVariant \in {"v1", "v2"}
    /\ jwt = NoSession /\ status = "authenticated" /\ session = NoSession
    /\ issued = 0 /\ expired = {}
    /\ route = "/dashboard" /\ pendingNav = "none" /\ effectDue = FALSE /\ inflight = <<>>
    /\ ev = Event("dashboard", "mount", "none")
    /\ rejected = FALSE
    /\ pageReady = FALSE /\ onbLoading = FALSE /\ onbError = "none"
    /\ currentStep = 0 /\ pillars = [k \in 0..2 |-> <<>>]
    /\ memories = <<>> /\ filteredMemories = <<>> /\ selectedCategory = "all"
    /\ loading = FALSE /\ searchLoading = FALSE
    /\ searchMode = FALSE /\ directAnswer = NoAnswer
    /\ results = <<>> /\ isOpen = FALSE
    /\ calendar = DefaultCalendar
    /\ input = EmptyInput
    /\ afterFailure = FALSE

dataFrame == <<jwt, status, session, issued, expired, route, pendingNav, dashVariant, effectDue,
               inflight, rejected, pageReady, onbLoading, onbError, currentStep, pillars,
               loading, searchLoading, resp, calendar, input, afterFailure>>

DataRecentOk ==
    /\ IF dashVariant = "v1" THEN RecentOkV1(resp) ELSE RecentOkV2(resp)
    /\ ev' = Event("dashboard", "recent", "ok")
    /\ UNCHANGED dataFrame

\* searchMemories(q) from the call (setDirectAnswer('')) to the ok answer
DataSearchOk(q) ==
    /\ dashVariant = "v1"
    /\ ~TrimEmpty(q)
    /\ SearchOkV1From(NoAnswer, q, resp)
    /\ ev' = [view |-> "dashboard", op |-> "search", outcome |-> "ok", query |-> q]
    /\ UNCHANGED dataFrame

DataNavbarSearchOk ==
    /\ dashVariant = "v2"
    /\ SearchOkV2(resp)
    /\ ev' = Event("dashboard", "search", "ok")
    /\ UNCHANGED dataFrame

DataSelectCategory(c) ==
    /\ dashVariant = "v1"
    /\ c \in AllCategories(memories)
    /\ SelectCategory(c)
    /\ ev' = Event("dashboard", "select", "none")
    /\ UNCHANGED dataFrame

NextData ==
    \/ DataRecentOk
    \/ \E q \in Queries : DataSearchOk(q)
    \/ DataNavbarSearchOk
    \/ \E c \in {"all", "work", "family"} : DataSelectCategory(c)

SpecData == InitData /\ [][NextData]_vars

----------------------------------------------------------------------------
(* SpecAnswer: the direct answer of one search response body *)

AnswerScores == {NoScore, 9, AnswerThreshold, 85}

AnswerContents == {NoContent, DateContent, <<"May", "be", "march", "3">>}

\* Every score on a memory holding a date, every content on a memory of
\* score 0.85.
AnswerUniverse ==
    {Memory(i, s, {"work"}, DateContent) : i \in 1..MaxId, s \in AnswerScores}
        \cup {Memory(i, 85, {"work"}, c) : i \in 1..MaxId, c \in AnswerContents}

AnswerBodies == SeqsUpTo(AnswerUniverse, MaxLen)

AnswerQueries == Queries \cup {<<"when", "it", "is">>}

InitAnswer ==
    /\ resp \in AnswerBodies
    /\ dashVariant = "v1"
    /\ jwt = NoSession /\ status = "authenticated" /\ session = NoSession
    /\ issued = 0 /\ expired = {}
    /\ route = "/dashboard" /\ pendingNav = "none" /\ effectDue = FALSE /\ inflight = <<>>
    /\ ev = Event("dashboard", "mount", "none")
    /\ rejected = FALSE
    /\ pageReady = FALSE /\ onbLoading = FALSE /\ onbError = "none"
    /\ currentStep = 0 /\ pillars = EmptyPillars
    /\ memories = <<>> /\ filteredMemories = <<>> /\ selectedCategory = "all"
    /\ loading = FALSE /\ searchLoading = FALSE
    /\ searchMode = FALSE /\ directAnswer = NoAnswer
    /\ results = <<>> /\ isOpen = FALSE
    /\ calendar = DefaultCalendar
    /\ input = EmptyInput
    /\ afterFailure = FALSE

NextAnswer == \E q \in AnswerQueries : DataSearchOk(q)

SpecAnswer == InitAnswer /\ [][NextAnswer]_vars

----------------------------------------------------------------------------
(* SpecCalendar: the calendar of the second dashboard over one memory list *)

TimeZones == {-5, 0, 9}

\* the clock when the calendar mounts: 15 January 10:00 and 31 January 22:00 UTC
NowChoices == {Timestamp(1, 15, 10), Timestamp(1, 31, 22)}

\* creation times in the middle and at the ends of months
CreatedAts ==
    {Timestamp(1, 15, 12), Timestamp(1, 31, 22), Timestamp(2, 1, 3), Timestamp(2, 28, 23)}

CalendarLists ==
    {[i \in 1..Len(s) |-> CalendarMemory(i, s[i])] : s \in SeqsUpTo(CreatedAts, MaxCalendarLen)}

InitCalendar ==
    /\ memories \in CalendarLists
    /\ calendar \in {CalendarAt(ParseDate(n), tz) : n \in NowChoices, tz \in TimeZones}
    /\ input = EmptyInput
    /\ afterFailure = FALSE
    /\ dashVariant = "v2"
    /\ resp = <<>>
    /\ jwt = NoSession /\ status = "authenticated" /\ session = NoSession
    /\ issued = 0 /\ expired = {}
    /\ route = "/dashboard" /\ pendingNav = "none" /\ effectDue = FALSE /\ inflight = <<>>
    /\ ev = Event("dashboard", "mount", "none")
    /\ rejected = FALSE
    /\ pageReady = FALSE /\ onbLoading = FALSE /\ onbError = "none"
    /\ currentStep = 0 /\ pillars = EmptyPillars
    /\ filteredMemories = <<>> /\ selectedCategory = "all"
    /\ loading = FALSE /\ searchLoading = FALSE
    /\ searchMode = FALSE /\ directAnswer = NoAnswer
    /\ results = <<>> /\ isOpen = FALSE

\* previousMonth, within the months paged over
PreviousMonth ==
    /\ GetMonth(calendar.currentDate) > 1
    /\ calendar' = [calendar EXCEPT !.currentDate = NewDate(GetMonth(@) - 1, 1)]
    /\ ev' = Event("calendar", "previousMonth", "none")
    /\ UNCHANGED <<sessVars, navVars, rejected, viewVars, resp, input>>
    /\ afterFailure' = FALSE

\* nextMonth, within the months paged over
NextMonth ==
    /\ GetMonth(calendar.currentDate) < MaxMonths
    /\ calendar' = [calendar EXCEPT !.currentDate = NewDate(GetMonth(@) + 1, 1)]
    /\ ev' = Event("calendar", "nextMonth", "none")
    /\ UNCHANGED <<sessVars, navVars, rejected, viewVars, resp, input>>
    /\ afterFailure' = FALSE

\* goToToday
GoToToday ==
    /\ calendar' = [calendar EXCEPT !.currentDate = calendar.now]
    /\ ev' = Event("calendar", "goToToday", "none")
    /\ UNCHANGED <<sessVars, navVars, rejected, viewVars, resp, input>>
    /\ afterFailure' = FALSE

\* checkMobile, on mount and on every resize of the window
CheckMobile(narrow) ==
    /\ calendar' = [calendar EXCEPT !.isMobile = narrow]
    /\ ev' = Event("calendar", "checkMobile", "none")
    /\ UNCHANGED <<sessVars, navVars, rejected, viewVars, resp, input>>
    /\ UNCHANGED afterFailure

\* the argument the button of cell c hands to handleDayClick: the day of the
\* month, in both layouts
ClickArgument(c) == IF calendar.isMobile THEN GetDate(CalendarCells[c]) ELSE c

\* handleDayClick(day) with a number: the day of the displayed month
ClickedDate(day) == NewDate(GetMonth(calendar.currentDate), day)

\* a click on day cell c: handleDayClick calls onDayClick(clickedDate,
\* dayMemories), and the dashboard's handleDayClick opens the day modal with
\* them; the event keeps what the modal was opened with
DayClick(c) ==
    /\ c \in DOMAIN CalendarCells
    /\ LET clickedDate == ClickedDate(ClickArgument(c))
           dayMemories == GetMemoriesForDate(clickedDate)
       IN  ev' = [view |-> "calendar", op |-> "dayClick", outcome |-> "none",
                  cell |-> c, date |-> clickedDate, memories |-> dayMemories]
    /\ UNCHANGED <<sessVars, navVars, rejected, viewVars, resp, calendar, input>>
    /\ afterFailure' = FALSE

NextCalendar ==
    \/ PreviousMonth
    \/ NextMonth
    \/ GoToToday
    \/ \E narrow \in BOOLEAN : CheckMobile(narrow)

SpecCalendar == InitCalendar /\ [][NextCalendar]_vars

\* the calendar with clicks on its day cells
NextDayClick ==
    \/ NextCalendar
    \/ \E c \in 1..31 : DayClick(c)

SpecDayClick == InitCalendar /\ [][NextDayClick]_vars

----------------------------------------------------------------------------
(* SpecIntensity: the colours of the day cells over lists of many memories *)

\* memories of two neighbouring days
IntensityCreatedAts == {Timestamp(1, 15, 12), Timestamp(1, 16, 12)}

\* lists of up to MaxCount memories, newest first as the recency fetch returns
\* them: k memories of 16 January, then those of 15 January
IntensityLists ==
    {[i \in 1..n |-> CalendarMemory(i, IF i <= k THEN Timestamp(1, 16, 12)
                                                 ELSE Timestamp(1, 15, 12))] :
        n \in 0..MaxCount, k \in 0..MaxCount}

InitIntensity ==
    /\ memories \in IntensityLists
    /\ calendar \in {CalendarAt(ParseDate(Timestamp(1, 15, 10)), 0)}
    /\ input = EmptyInput
    /\ afterFailure = FALSE
    /\ dashVariant = "v2"
    /\ resp = <<>>
    /\ jwt = NoSession /\ status = "authenticated" /\ session = NoSession
    /\ issued = 0 /\ expired = {}
    /\ route = "/dashboard" /\ pendingNav = "none" /\ effectDue = FALSE /\ inflight = <<>>
    /\ ev = Event("dashboard", "mount", "none")
    /\ rejected = FALSE
    /\ pageReady = FALSE /\ onbLoading = FALSE /\ onbError = "none"
    /\ currentStep = 0 /\ pillars = EmptyPillars
    /\ filteredMemories = <<>> /\ selectedCategory = "all"
    /\ loading = FALSE /\ searchLoading = FALSE
    /\ searchMode = FALSE /\ directAnswer = NoAnswer
    /\ results = <<>> /\ isOpen = FALSE

\* renderCalendarDays draws day cell c: its count and its colour classes
RenderCell(c) ==
    /\ c \in DOMAIN CalendarCells
    /\ LET dayMemories == GetMemoriesForDate(CalendarCells[c])
       IN  ev' = [view |-> "calendar", op |-> "render", outcome |-> "none", cell |-> c,
                  count |-> Cardinality(dayMemories),
                  heatMapClass |-> GetHeatMapIntensity(Cardinality(dayMemories))]
    /\ UNCHANGED <<sessVars, navVars, rejected, viewVars, resp, calendar, input>>
    /\ UNCHANGED afterFailure

NextIntensity ==
    \/ \E c \in 1..31 : RenderCell(c)
    \/ \E narrow \in BOOLEAN : CheckMobile(narrow)

SpecIntensity == InitIntensity /\ [][NextIntensity]_vars

----------------------------------------------------------------------------
(* SpecInput: a mounted dashboard with its MemoryInput and its search box *)

\* texts typed into the textarea: nothing, a blank, a word followed by a blank
Contents == {<<>>, <<" ">>, <<"lunch", " ">>}

\* one picture and one document
InputFiles ==
    {File("a.png", <<"image", "png">>, 1024), File("notes.pdf", <<"application", "pdf">>, 1024)}

\* queries typed into the search boxes: none, a blank, two words
InputQueries == {EmptyQuery, BlankQuery, <<"work", "meetings">>}

\* response bodies: no memory, one memory
InputBodies == {<<>>, <<Memory(1, 85, {"work"}, NoContent)>>}

\* the dashboard of a signed-in user about to run its authentication effect
InitInput ==
    /\ jwt = SessionWith(1) /\ status = "authenticated" /\ session = SessionWith(1)
    /\ issued = 1 /\ expired = {}
    /\ route = "/dashboard" /\ pendingNav = "none" /\ effectDue = TRUE /\ inflight = <<>>
    /\ dashVariant \in {"v1", "v2"}
    /\ ev = Event("dashboard", "mount", "none")
    /\ rejected = FALSE
    /\ pageReady = FALSE /\ onbLoading = FALSE /\ onbError = "none"
    /\ currentStep = 0 /\ pillars = EmptyPillars
    /\ memories = <<>> /\ filteredMemories = <<>> /\ selectedCategory = "all"
    /\ loading = FALSE /\ searchLoading = FALSE
    /\ searchMode = FALSE /\ directAnswer = NoAnswer
    /\ results = <<>> /\ isOpen = FALSE
    /\ resp = <<>>
    /\ calendar = DefaultCalendar
    /\ input = EmptyInput
    /\ afterFailure = FALSE

\* onChange of the textarea (disabled while loading): setContent
SetContent(c) ==
    /\ OnDashboard /\ ~loading
    /\ input' = [input EXCEPT !.content = c]
    /\ ev' = Event("dashboard", "setContent", "none")
    /\ UNCHANGED <<sessVars, navVars, rejected, viewVars, resp, calendar>>
    /\ afterFailure' = FALSE

\* handleFileSelect(files), from the file input or from a drop
HandleFileSelect(files) ==
    /\ OnDashboard
    /\ input' = [input EXCEPT !.photos = AddPhotos(@, files)]
    /\ ev' = [view |-> "dashboard", op |-> "selectFiles", outcome |-> "none", files |-> files]
    /\ UNCHANGED <<sessVars, navVars, rejected, viewVars, resp, calendar>>
    /\ afterFailure' = FALSE

\* removePhoto(index), from the button on a photo preview
RemovePhoto(index) ==
    /\ OnDashboard
    /\ index \in 1..Len(input.photos)
    /\ input' = [input EXCEPT !.photos = WithoutPhoto(@, index)]
    /\ ev' = [view |-> "dashboard", op |-> "removePhoto", outcome |-> "none", index |-> index]
    /\ UNCHANGED <<sessVars, navVars, rejected, viewVars, resp, calendar>>
    /\ afterFailure' = FALSE

\* MemoryInput.handleSubmit: onSubmit(content.trim(), photos) and the input
\* emptied, or nothing at all
HandleSubmit ==
    /\ OnDashboard
    /\ IF SubmitAccepted
       THEN /\ AddMemoryCall(Trim(input.content), input.photos)
            /\ input' = EmptyInput
       ELSE /\ ev' = Event("dashboard", "create", "rejected")
            /\ UNCHANGED <<inflight, loading, input>>
    /\ UNCHANGED <<sessVars, route, pendingNav, dashVariant, effectDue, rejected, onbVars, memories,
                   filteredMemories, selectedCategory, searchLoading, searchMode,
                   directAnswer, results, isOpen, resp, calendar>>
    /\ afterFailure' = FALSE

\* NavbarSearch.handleSubmit of the second dashboard with a blank query:
\* it returns before onSearch
NavbarSubmitBlank(query) ==
    /\ OnDashboard /\ dashVariant = "v2"
    /\ TrimEmpty(query)
    /\ ev' = Event("dashboard", "search", "rejected")
    /\ UNCHANGED <<sessVars, navVars, rejected, viewVars, resp, calendar, input>>
    /\ afterFailure' = FALSE

NextInput ==
    \/ DashboardEffect
    \/ \E c \in Contents : SetContent(c)
    \/ \E file \in InputFiles : HandleFileSelect(<<file>>)
    \/ \E index \in 1..MaxPhotos : RemovePhoto(index)
    \/ HandleSubmit
    \/ \E query \in InputQueries, control \in {"submit", "suggestion", "clear"} :
          SearchV1(query, control)
    \/ \E query \in InputQueries : SearchV2(query)
    \/ \E query \in InputQueries : NavbarSubmitBlank(query)
    \/ \E i \in 1..MaxInflight, outcome \in {"ok", "unauthorized", "server", "network"},
          body \in InputBodies : DashboardResponse(i, outcome, body)

SpecInput == InitInput /\ [][NextInput]_vars

----------------------------------------------------------------------------
(* SpecPhotos: the pending photo list of MemoryInput *)

\* pictures below and exactly at the size limit, a picture above it, a document
PhotoFiles ==
    { File("a.png", <<"image", "png">>, 1024),
      File("b.jpg", <<"image", "jpeg">>, MaxPhotoBytes),
      File("c.gif", <<"image", "gif">>, MaxPhotoBytes + 1),
      File("d.pdf", <<"application", "pdf">>, 1024) }

\* the FileList of one selection or drop
PhotoSelections == SeqsUpTo(PhotoFiles, MaxSelect)

NextPhotos ==
    \/ DashboardEffect
    \/ \E files \in PhotoSelections : HandleFileSelect(files)
    \/ \E index \in 1..MaxPhotos : RemovePhoto(index)

SpecPhotos == InitInput /\ [][NextPhotos]_vars

----------------------------------------------------------------------------
(* SpecLoading: the wizard and the dashboard, every request completing *)

\* a signed-in user on the wizard or on a dashboard, with or without the
\* access token in the session
InitLoading ==
    /\ \E tok \in {NoToken, 1} : jwt = SessionWith(tok) /\ session = SessionWith(tok)
    /\ status = "authenticated"
    /\ issued = 1 /\ expired = {}
    /\ route \in {"/onboarding", "/dashboard"}
    /\ pendingNav = "none" /\ effectDue = TRUE /\ inflight = <<>>
    /\ dashVariant \in {"v1", "v2"}
    /\ ev = Event("browser", "open", "none")
    /\ rejected = FALSE
    /\ pageReady = FALSE /\ onbLoading = FALSE /\ onbError = "none"
    /\ currentStep = 0 /\ pillars = EmptyPillars
    /\ memories = <<>> /\ filteredMemories = <<>> /\ selectedCategory = "all"
    /\ loading = FALSE /\ searchLoading = FALSE
    /\ searchMode = FALSE /\ directAnswer = NoAnswer
    /\ results = <<>> /\ isOpen = FALSE
    /\ resp = <<>>
    /\ calendar = DefaultCalendar
    /\ input = EmptyInput
    /\ afterFailure = FALSE

\* the request at position i completes, with a response or a network error
Completes(i) ==
    \/ \E outcome \in {"ok", "unauthorized", "server", "network"}, completed \in BOOLEAN :
          OnboardingStatusResponse(i, outcome, completed)
    \/ \E outcome \in {"ok", "unauthorized", "server", "network"} :
          OnboardingSubmitResponse(i, outcome)
    \/ \E outcome \in {"ok", "unauthorized", "server", "network"}, body \in InputBodies :
          DashboardResponse(i, outcome, body)

NextLoading ==
    \/ CommitNavigation
    \/ ExpireToken(1)
    \/ OnboardingEffect
    \/ \E name \in PillarNames : AddPillar(name)
    \/ HandleNext
    \/ DashboardEffect
    \/ ShowAll
    \/ AddMemory
    \/ \E query \in InputQueries, control \in {"submit", "suggestion", "clear"} :
          SearchV1(query, control)
    \/ \E query \in InputQueries : SearchV2(query)
    \/ \E i \in 1..MaxInflight : Completes(i)

\* The oldest request in flight completes, so every request does; a
\* navigation the router has started takes place.
FairLoading == WF_vars(Completes(1)) /\ WF_vars(CommitNavigation)

SpecLoading == InitLoading /\ [][NextLoading]_vars /\ FairLoading

----------------------------------------------------------------------------
(* Properties of the session and gateway contract (Spec) *)

SignInRoute == "/auth/signin"

\* the page shown is the sign-in page, or a navigation to it is under way
RedirectedToSignIn == route = SignInRoute \/ pendingNav = SignInRoute

\* C1: whenever a backend call is answered 401, in any view, the client has
\* signed out (session and cookie gone) and is redirected to /auth/signin.
C1_UnauthorizedSignsOutAndRedirects ==
    ev.outcome = "unauthorized" =>
        /\ RedirectedToSignIn
        /\ ~session.present
        /\ ~jwt.present

\* C2: once a call was rejected with 401 and the sign-in page is shown, the
\* sign-in page stays until the user signs in again (or opens another
\* address by hand): nothing sends the browser back to the dispatcher.
C2_StaysOnSignInAfterRejection ==
    [][(rejected /\ route = SignInRoute) =>
          (route' = SignInRoute \/ ev'.op \in {"signIn", "open"})]_vars

\* C3: every request sent carries an access token: none is sent while the
\* session has no accessToken.
C3_RequestsCarryToken ==
    \A i \in 1..Len(inflight) : inflight[i].token # NoToken

\* C4: when the authentication effect of a protected view has run with the
\* status resolved and the session absent or without accessToken, the view
\* redirects to /auth/signin.
C4_NoTokenRedirects ==
    (/\ ev.op = "effect"
     /\ ev.view \in {"landing", "onboarding", "dashboard"}
     /\ status # "loading"
     /\ NoAccessToken(session)) => RedirectedToSignIn

\* C5: callbacks.signIn returns true only for provider google with an OK
\* answer of POST /auth/nextauth; in every other case it returns false, no
\* accessToken is attached to the user and no session cookie is written.
C5_SignInFailsClosed ==
    [][ev'.op = "signIn" =>
          LET exchanged == ev'.provider = "google" /\ ev'.exchange = "ok"
          IN  /\ ev'.outcome = "true" => exchanged
              /\ ~exchanged => /\ ev'.outcome = "false"
                               /\ ev'.userToken = NoToken
                               /\ jwt' = jwt
                               /\ route' = "/auth/error"]_vars

\* a sign-in with google whose exchange threw, made while an earlier session
\* cookie existed
C5_Witness ==
    /\ ev.op = "signIn"
    /\ ev.provider = "google" /\ ev.exchange = "throws"
    /\ ev.outcome = "false"
    /\ jwt.present

\* C6: a step of fetchRecentMemories that sends the request, or that handles
\* a 401 answer, leaves memories, filteredMemories, selectedCategory,
\* searchMode and directAnswer as they were; on the 401 the view redirects
\* to /auth/signin.
C6_Recent401LeavesListUnchanged ==
    [][(/\ ev'.view = "dashboard" /\ ev'.op = "recent"
        /\ ev'.outcome \in {"sent", "nosend", "unauthorized"}) =>
          /\ UNCHANGED listVars
          /\ ev'.outcome = "unauthorized" =>
                (route' = SignInRoute \/ pendingNav' = SignInRoute)]_vars

\* a 401 answer to fetchRecentMemories arrived at a dashboard showing search
\* results with a direct answer
C6_Witness ==
    /\ ev = Event("dashboard", "recent", "unauthorized")
    /\ pendingNav = SignInRoute
    /\ memories # <<>>
    /\ searchMode
    /\ directAnswer # NoAnswer

----------------------------------------------------------------------------
(* Properties of the response post-processing (SpecData) *)

NoDuplicateIds(list) ==
    \A i, j \in 1..Len(list) : list[i].id = list[j].id => i = j

ScoresAtLeastFloor(list) ==
    \A i \in 1..Len(list) : list[i].score = NoScore \/ list[i].score >= ScoreFloor

StoredSearchResults == IF dashVariant = "v1" THEN memories ELSE results

SearchJustStored == ev.op = "search" /\ ev.outcome = "ok"

\* C7: after a search response is stored, the stored result set has no two
\* entries with the same id and every entry has no score or a score >= 0.10.
C7_SearchStoreUniqueAndFloored ==
    SearchJustStored =>
        /\ NoDuplicateIds(StoredSearchResults)
        /\ ScoresAtLeastFloor(StoredSearchResults)

\* C8: a successful recency fetch stores the response as received; nothing is
\* removed for its score or for a duplicate id.
C8_RecencyUnfiltered ==
    (ev.op = "recent" /\ ev.outcome = "ok") => memories = resp

\* a recency response holding a score below the floor and a duplicate id was stored
C8_Witness ==
    /\ ev.op = "recent" /\ ev.outcome = "ok"
    /\ \E i \in 1..Len(memories) : memories[i].score = 9
    /\ ~NoDuplicateIds(memories)

\* the indices of M whose memory carries category c
IndicesWith(M, c) == {i \in 1..Len(M) : c \in M[i].categories}

\* F is M restricted to the index set I, in the order of M
IsRestriction(F, M, I) ==
    /\ Len(F) = Cardinality(I)
    /\ \A i \in I : F[Cardinality({j \in I : j <= i})] = M[i]

\* C9 as stated: for every category c occurring in M, the literal 'all'
\* included, selecting c shows exactly the memories of M carrying c, in order.
C9_FilterExactAnyName ==
    (dashVariant = "v1" /\ selectedCategory \in Categories(memories)) =>
        IsRestriction(filteredMemories, memories, IndicesWith(memories, selectedCategory))

\* C9 (amended): for every category c other than 'all' occurring in M,
\* selecting c shows exactly the memories of M carrying c, in the order of M.
C9_FilterExact ==
    (dashVariant = "v1" /\ selectedCategory # "all"
        /\ selectedCategory \in Categories(memories)) =>
        IsRestriction(filteredMemories, memories, IndicesWith(memories, selectedCategory))

\* a category was selected that two of three memories carry
C9_Witness ==
    /\ ev.op = "select"
    /\ selectedCategory \in Categories(memories) \ {"all"}
    /\ Len(memories) = 3
    /\ Len(filteredMemories) = 2
    /\ filteredMemories[1] # filteredMemories[2]

\* C10: with 'all' selected the filtered view of the first dashboard (the one
\* with a category filter) is the memory list itself.
C10_AllIsIdentity ==
    (dashVariant = "v1" /\ selectedCategory = "all") => filteredMemories = memories

\* 'all' was selected over a list in which only some memories carry a
\* category named 'all'
C10_Witness ==
    /\ ev.op = "select"
    /\ selectedCategory = "all"
    /\ IndicesWith(memories, "all") # {}
    /\ IndicesWith(memories, "all") # 1..Len(memories)

----------------------------------------------------------------------------
(* Onboarding wizard *)

\* the wizard is on screen
WizardShown == route = "/onboarding" /\ pageReady

\* C11 as stated: Continue is disabled on a non-final step with an empty
\* pillar list, and on the final step it is enabled in every reachable state,
\* a submit in flight included.
C11_ContinueEnabledOnFinalStep ==
    WizardShown =>
        /\ (currentStep < LastStep /\ Len(pillars[currentStep]) = 0) => ContinueDisabled
        /\ currentStep = LastStep => ~ContinueDisabled

\* C11, amended: Continue is disabled on a non-final step with an empty pillar
\* list; on the final step it is disabled exactly while a submit is in flight
\* (loading), whatever the pillar lists hold.
C11_ContinueDisabledWhenEmpty ==
    WizardShown =>
        /\ (currentStep < LastStep /\ Len(pillars[currentStep]) = 0) => ContinueDisabled
        /\ currentStep = LastStep => (ContinueDisabled <=> onbLoading)

\* the final step with an empty pillar list, its submit in flight
C11_Witness ==
    /\ WizardShown
    /\ currentStep = LastStep /\ Len(pillars[LastStep]) = 0
    /\ onbLoading
    /\ \E i \in 1..Len(inflight) : inflight[i].op = "submit"

\* the submit-onboarding requests in flight
SubmitsInFlight == {i \in 1..Len(inflight) : inflight[i].op = "submit"}

\* C12: at step k every step before k has at least one pillar, after any
\* sequence of add / remove / Continue / Back; and every submit-onboarding
\* request carries non-empty people and interests groups.
C12_EarlierStepsNonEmpty ==
    /\ \A j \in 0..(currentStep - 1) : Len(pillars[j]) > 0
    /\ \A i \in SubmitsInFlight :
          Len(inflight[i].body[0]) > 0 /\ Len(inflight[i].body[1]) > 0

\* a submit just sent with the final step left empty
C12_Witness ==
    /\ ev.op = "submit" /\ ev.outcome = "sent"
    /\ \E i \in SubmitsInFlight :
          /\ Len(inflight[i].body[LastStep]) = 0
          /\ Len(inflight[i].body[0]) > 0

\* C13: the step index stays in {0,1,2}; Back lowers it by one and only from a
\* step > 0 (at step 0 nothing but Continue changes it); Continue on a
\* non-final step raises it by one and sends nothing; Continue on the final
\* step keeps it and sends one submit-onboarding request carrying the pillar
\* groups of all three steps.
C13_StepMachine ==
    [][/\ currentStep \in 0..LastStep /\ currentStep' \in 0..LastStep
       /\ (currentStep = 0 /\ currentStep' # 0) => ev'.op = "next"
       /\ (ev'.view = "onboarding" /\ ev'.op = "back") =>
             /\ currentStep > 0
             /\ currentStep' = currentStep - 1
             /\ inflight' = inflight
       /\ (ev'.view = "onboarding" /\ ev'.op = "next") =>
             /\ currentStep < LastStep
             /\ currentStep' = currentStep + 1
             /\ inflight' = inflight
       /\ (ev'.view = "onboarding" /\ ev'.op = "submit"
              /\ ev'.outcome \in {"sent", "nosend"}) =>
             /\ currentStep = LastStep
             /\ currentStep' = currentStep
             /\ ev'.outcome = "sent"
             /\ Len(inflight') = Len(inflight) + 1
             /\ SubSeq(inflight', 1, Len(inflight)) = inflight
             /\ inflight'[Len(inflight')].op = "submit"
             /\ DOMAIN inflight'[Len(inflight')].body = 0..LastStep
             /\ inflight'[Len(inflight')].body = pillars]_vars

\* Back pressed on the final step, whose pillar list is not empty
C13_Witness ==
    /\ ev.view = "onboarding" /\ ev.op = "back"
    /\ currentStep = LastStep - 1
    /\ Len(pillars[LastStep]) > 0

\* C14: on the onboarding page a 401 to GET /onboarding/status or to
\* POST /onboarding/pillars signs the session out (cookie and client session
\* gone) and redirects to /auth/signin; after a 401 on the status check
\* pageReady is false.
C14_Onboarding401SignsOut ==
    [][(ev'.view = "onboarding" /\ ev'.outcome = "unauthorized") =>
          /\ ev'.op \in {"status", "submit"}
          /\ jwt' = NoSession /\ session' = NoSession /\ status' = "unauthenticated"
          /\ route' = SignInRoute \/ pendingNav' = SignInRoute
          /\ ev'.op = "status" => ~pageReady']_vars

\* the submit of a ready wizard was answered 401: the token expired after the
\* status check had passed
C14_Witness ==
    /\ ev.view = "onboarding" /\ ev.op = "submit" /\ ev.outcome = "unauthorized"
    /\ pageReady /\ onbError = "expired"
    /\ pendingNav = SignInRoute
    /\ jwt = NoSession

----------------------------------------------------------------------------
(* Requests in flight *)

\* the requests in flight that the page on screen has sent
Outstanding == {i \in 1..Len(inflight) : inflight[i].mounted}

\* the loading flag that covers request r on the page that sent it
LoadingFlagOf(r) ==
    CASE r.view = "onboarding" /\ r.op = "submit" -> onbLoading
      [] r.view = "onboarding" /\ r.op = "status" -> ~pageReady
      [] r.view = "landing" -> TRUE
      [] r.view = "dashboard" /\ r.op = "search" /\ dashVariant = "v2" -> searchLoading
      [] OTHER -> loading

\* C15: the view on screen has at most one request outstanding, and while it
\* is outstanding the loading flag of the view is true.
C15_OneRequestPerView ==
    /\ Cardinality(Outstanding) <= 1
    /\ \A i \in Outstanding : LoadingFlagOf(inflight[i])

\* the steps that load a page anew (window.location, signIn, signOut with a
\* callbackUrl), which ends the scripts of the page and its requests
FullLoadStep(e) ==
    \/ e.op \in {"open", "signIn", "signOut"}
    \/ e.view = "signin" /\ e.op = "effect"

\* C16: requests are never cancelled or sequenced: client-side navigation
\* keeps every request in flight, a handler step removes at most the request
\* it answers, and an ok answer to a request that a later request has
\* overtaken is applied like any other (a recency answer leaves search mode, a
\* search answer of the first dashboard enters it, loading is dropped).
C16_NoCancellationNoSequencing ==
    [][/\ ev'.op = "navigate" => Len(inflight') = Len(inflight)
       /\ Len(inflight') < Len(inflight) - 1 => FullLoadStep(ev')
       /\ (/\ ev'.view = "dashboard" /\ ev'.op \in {"recent", "search"}
           /\ ev'.outcome = "ok" /\ ev'.stale # "none") =>
             /\ searchMode' = (ev'.op = "search")
             /\ ev'.op = "recent" => directAnswer' = NoAnswer
             /\ loading' = FALSE]_vars

\* A = fetchRecentMemories, B = a search issued after it: B's answer was
\* applied first, A's answer afterwards, and the first dashboard shows the
\* recency list outside search mode
C16_Witness ==
    /\ dashVariant = "v1" /\ route = "/dashboard"
    /\ ev.view = "dashboard" /\ ev.op = "recent" /\ ev.outcome = "ok"
    /\ ev.stale = "search"
    /\ memories # <<>> /\ ~searchMode

----------------------------------------------------------------------------
(* Failed backend calls *)

FailureOutcomes == {"unauthorized", "server", "network"}

\* an inline error message is on screen: only the onboarding page renders one
\* for a backend failure ({error && ...}); the dashboards keep no error state
InlineErrorShown == route = "/onboarding" /\ onbError # "none"

\* the step started a navigation or changed the page
Redirects == pendingNav' # "none" \/ route' # route

\* C17: every failed backend call (401, other non-2xx, network error) in
\* every view ends in a redirect or with an inline error message on screen.
C17_FailuresSurface ==
    [][(/\ ev'.view \in {"landing", "onboarding", "dashboard"}
        /\ ev'.outcome \in FailureOutcomes) =>
          Redirects \/ InlineErrorShown']_vars

\* C18: a non-2xx, non-401 answer never redirects and never clears the
\* session, in any view: the route stays and an inline error is shown.
C18_ServerErrorStaysInline ==
    [][(/\ ev'.view \in {"landing", "onboarding", "dashboard"}
        /\ ev'.outcome = "server") =>
          /\ ~Redirects
          /\ UNCHANGED <<jwt, session, status>>
          /\ InlineErrorShown']_vars

----------------------------------------------------------------------------
(* Direct answer (SpecAnswer) *)

\* C19: after a successful search a direct answer is shown exactly when the
\* query contains 'when is' (case-insensitively), the stored list (the
\* response de-duplicated and score-filtered) is not empty, its first entry
\* has a score strictly above 0.80 and its content holds a month name
\* followed by a day number; the answer is then that token.
C19_DirectAnswerHeuristic ==
    (ev.op = "search" /\ ev.outcome = "ok") =>
        /\ memories = SearchStore(resp)
        /\ LET hit == /\ IncludesWhenIs(ev.query)
                      /\ Len(memories) > 0
                      /\ memories[1].score > AnswerThreshold
                      /\ DateMatch(memories[1].content) # NoAnswer
           IN  /\ hit => directAnswer = DateMatch(memories[1].content)
               /\ ~hit => directAnswer = NoAnswer

\* 'When Is it' over a response whose first entry the score floor removed:
\* the answer 'March 3rd' comes from the first stored entry, of score 0.85
C19_Witness ==
    /\ ev.op = "search" /\ ev.outcome = "ok"
    /\ directAnswer = <<"March", "3rd">>
    /\ memories[1].score = 85
    /\ resp[1].score = 9

----------------------------------------------------------------------------
(* Calendar (SpecCalendar) *)

\* the instant memory i was created at
CreatedOn(i) == ParseDate(memories[i].created_at)

\* the month shown in the header of the calendar
DisplayedMonth == GetMonth(calendar.currentDate)

\* the day cells in which memory i is counted
CellsCounting(i) ==
    LET cells == CalendarCells
    IN  {c \in DOMAIN cells : i \in GetMemoriesForDate(cells[c])}

\* memory i is counted in the cell of its local calendar day and in no other
CountedOnItsDay(i) ==
    LET cells == CalendarCells
        counting == CellsCounting(i)
    IN  /\ Cardinality(counting) = 1
        /\ \A c \in counting :
              /\ ToDateString(cells[c]) = ToDateString(CreatedOn(i))
              /\ ~calendar.isMobile => c = GetDate(CreatedOn(i))

\* C20 as stated: whatever the layout, every memory whose local creation day
\* lies in the displayed month is counted in exactly one day cell, the cell
\* of that day.
C20_OneCellPerMemory ==
    \A i \in 1..Len(memories) :
        GetMonth(CreatedOn(i)) = DisplayedMonth => CountedOnItsDay(i)

\* the local days of the two-week strip
StripDaysShown ==
    LET first == LocalDay(calendar.currentDate) - GetDay(calendar.currentDate)
    IN  first..(first + StripDays - 1)

\* C20, amended: in the month layout every memory whose local creation day
\* lies in the displayed month is counted in exactly one day cell, the cell of
\* that day; in the two-week layout a memory is counted in the cell of its
\* local day when that day is one of the fourteen shown, and in no cell
\* otherwise.
C20_OneCellPerMemoryInMonthLayout ==
    \A i \in 1..Len(memories) :
        IF calendar.isMobile
        THEN IF LocalDay(CreatedOn(i)) \in StripDaysShown
             THEN CountedOnItsDay(i)
             ELSE CellsCounting(i) = {}
        ELSE GetMonth(CreatedOn(i)) = DisplayedMonth => CountedOnItsDay(i)

\* February in the month layout, nine hours east of UTC: the memory created
\* on 31 January 22:00 UTC is counted in the cell of 1 February
C20_Witness ==
    /\ ev.op = "nextMonth"
    /\ ~calendar.isMobile /\ calendar.tz = 9
    /\ DisplayedMonth = 2
    /\ \E i \in 1..Len(memories) :
          /\ memories[i].created_at = Timestamp(1, 31, 22)
          /\ CellsCounting(i) = {1}

\* the cell's button was drawn with date cells[c] and the memories of that date
CellMemories(c) == GetMemoriesForDate(CalendarCells[c])

\* C21: a click on a displayed day cell, in the month layout and in the
\* two-week layout, hands onDayClick the calendar day of that cell and the
\* memories counted in that cell, and sends no request.
C21_ClickYieldsCell ==
    ev.op = "dayClick" =>
        /\ ToDateString(ev.date) = ToDateString(CalendarCells[ev.cell])
        /\ ev.memories = CellMemories(ev.cell)
        /\ inflight = <<>>

\* the five tiers, lightest first
TierClasses ==
    << "bg-gray-50 hover:bg-gray-100", "bg-purple-100 hover:bg-purple-200",
       "bg-purple-200 hover:bg-purple-300", "bg-purple-300 hover:bg-purple-400",
       "bg-purple-400 hover:bg-purple-500" >>

\* the tier of a colour class: 0 .. 4, and 5 for a class that is none of them
TierOf(class) ==
    IF \E t \in 1..5 : TierClasses[t] = class
    THEN (CHOOSE t \in 1..5 : TierClasses[t] = class) - 1
    ELSE 5

\* the tier the boundaries 0 | 1 | 2-3 | 4-5 | 6+ give a count
TierByBoundaries(n) ==
    IF n = 0 THEN 0 ELSE IF n = 1 THEN 1 ELSE IF n \in {2, 3} THEN 2
    ELSE IF n \in {4, 5} THEN 3 ELSE 4

\* C22: the colour of a drawn day cell is the tier of its memory count under
\* the boundaries 0, 1, 2-3, 4-5, 6 and more: one of the five tiers, and no
\* smaller count has a higher tier.
C22_IntensityTiers ==
    ev.op = "render" =>
        /\ TierOf(ev.heatMapClass) = TierByBoundaries(ev.count)
        /\ \A m \in 0..ev.count :
              TierOf(GetHeatMapIntensity(m)) <= TierOf(ev.heatMapClass)

\* a day cell with three memories is drawn in the third colour while its
\* neighbour with four is drawn in the fourth
C22_Witness ==
    /\ ev.op = "render" /\ ev.count = 3
    /\ ev.heatMapClass = TierClasses[3]
    /\ \E c \in DOMAIN CalendarCells :
          /\ Cardinality(CellMemories(c)) = 4
          /\ GetHeatMapIntensity(4) = TierClasses[4]

----------------------------------------------------------------------------
(* De-duplication and score floor of a search response (SpecData) *)

\* the indices of the response at which an id occurs for the first time with
\* no score or a score of at least 0.10
FirstOccurrencesAboveFloor ==
    {i \in 1..Len(resp) :
        /\ \A j \in 1..(i - 1) : resp[j].id # resp[i].id
        /\ resp[i].score = NoScore \/ resp[i].score >= ScoreFloor}

\* C28: the list stored for a search response is the first occurrence of each
\* id, in response order, kept exactly when that occurrence has no score or a
\* score >= 0.10; a later duplicate with a higher score does not bring back
\* an id whose first occurrence is below the floor.
C28_DedupBeforeFloor ==
    SearchJustStored => IsRestriction(StoredSearchResults, resp, FirstOccurrencesAboveFloor)

----------------------------------------------------------------------------
(* MemoryInput and the search boxes (SpecInput) *)

\* the input holds no text but blanks, and no photo
EmptySubmission == TrimEmpty(input.content) /\ Len(input.photos) = 0

\* the requests of q that go to POST /memories/search
SearchRequests(q) == {i \in DOMAIN q : q[i].op = "search"}

\* C23: a submission of a memory with empty or blank content and no photos,
\* and any submission while loading, calls nothing and changes nothing; a
\* search with an empty or blank query sends no request to POST
\* /memories/search, and no such request in flight carries a blank query.
C23_EmptySubmissionRejected ==
    [][ /\ (/\ ev'.op = "create" /\ ev'.outcome \in {"sent", "nosend", "rejected"}
            /\ EmptySubmission \/ loading)
               => /\ ev'.outcome = "rejected"
                  /\ UNCHANGED <<inflight, input, dashVars>>
        /\ (ev'.op = "search" /\ ev'.outcome \in {"sentRecent", "rejected"})
               => SearchRequests(inflight') = SearchRequests(inflight)
        /\ \A i \in SearchRequests(inflight') : ~TrimEmpty(inflight'[i].query)
      ]_vars

\* a blank text without photos was submitted while nothing was loading, and
\* refused
C23_Witness ==
    /\ ev = Event("dashboard", "create", "rejected")
    /\ ~loading
    /\ input.content = <<" ">> /\ input.photos = <<>>

\* an image of at most 10MB
ImageWithinLimit(file) == file.type[1] = "image" /\ file.size <= 10 * 1024 * 1024

\* C24: after every selection, drop and removal the pending photo list holds
\* at most 5 files, all of them images of at most 10MB; a selection or drop
\* keeps the photos already accepted, in place, and appends the valid new
\* files in their order, leaving new ones out only when the list is full.
C24_PhotoListLimits ==
    [][ /\ Len(input'.photos) <= 5
        /\ \A k \in 1..Len(input'.photos) : ImageWithinLimit(input'.photos[k])
        /\ ev'.op = "selectFiles" =>
              LET old == input.photos
                  new == input'.photos
                  valid == SelectSeq(ev'.files, ImageWithinLimit)
                  added == SubSeq(new, Len(old) + 1, Len(new))
              IN  /\ Len(new) >= Len(old)
                  /\ SubSeq(new, 1, Len(old)) = old
                  /\ Len(added) <= Len(valid)
                  /\ added = SubSeq(valid, 1, Len(added))
                  /\ Len(added) < Len(valid) => Len(new) = 5
      ]_vars

\* two pictures were selected with four photos pending: the list is full with
\* the four and the first of the two
C24_Witness ==
    /\ ev.op = "selectFiles"
    /\ ev.files = <<File("a.png", <<"image", "png">>, 1024),
                    File("b.jpg", <<"image", "jpeg">>, MaxPhotoBytes)>>
    /\ Len(input.photos) = 5
    /\ input.photos[5] = File("a.png", <<"image", "png">>, 1024)
    /\ \A k \in 1..4 : input.photos[k] = File("b.jpg", <<"image", "jpeg">>, MaxPhotoBytes)

----------------------------------------------------------------------------
(* The onboarding-status check on a network failure (Spec) *)

\* C25: a network error on GET /onboarding/status does not block the client:
\* the landing dispatcher still redirects to /onboarding, and the onboarding
\* page becomes ready and shows the wizard with the connection error; neither
\* redirects to sign-in, neither touches the session.
C25_StatusNetworkErrorProceeds ==
    [][(ev'.op = "status" /\ ev'.outcome = "network") =>
          /\ UNCHANGED <<jwt, status, session>>
          /\ ev'.view \in {"landing", "onboarding"}
          /\ ev'.view = "landing" =>
                /\ pendingNav' = "/onboarding" \/ route' = "/onboarding"
                /\ pendingNav' # SignInRoute
          /\ ev'.view = "onboarding" =>
                /\ route' = "/onboarding" /\ pendingNav' = "none"
                /\ pageReady' /\ onbError' = "connection"]_vars

\* the status check of the onboarding page failed on the network: the wizard
\* is shown to the signed-in user with the connection error
C25_Witness ==
    /\ ev = Event("onboarding", "status", "network")
    /\ WizardShown /\ onbError = "connection"
    /\ pendingNav = "none"
    /\ session.present /\ jwt.present

----------------------------------------------------------------------------
(* The direct answer under overlapping requests (Spec) *)

\* C29: a direct answer on screen was extracted from the first entry of the
\* memory list now stored, and searchMode is true, whatever the order in
\* which searches and recency fetches were sent and answered.
C29_DirectAnswerFromStoredList ==
    directAnswer # NoAnswer =>
        /\ searchMode
        /\ Len(memories) > 0
        /\ directAnswer = DateMatch(memories[1].content)

----------------------------------------------------------------------------
(* Retries (Spec) *)

\* the step answered a request
ResponseStep == ev'.outcome \in {"ok"} \cup FailureOutcomes

\* the step sent a request: the queue grew, or an answered request was
\* replaced by a new one
RequestSent ==
    \/ Len(inflight') > Len(inflight)
    \/ ResponseStep /\ Len(inflight') = Len(inflight)

\* C26: no call is retried: a handler that sends, sends one request; the
\* step that receives a failure (401, other non-2xx, network error) sends
\* none; and after a failure no request is sent before the user acts or the
\* session changes.
C26_NoAutomaticRetry ==
    [][ /\ Len(inflight') <= Len(inflight) + 1
        /\ ev'.outcome \in {"sent", "sentRecent"} => Len(inflight') = Len(inflight) + 1
        /\ ev'.outcome \in FailureOutcomes => Len(inflight') = Len(inflight) - 1
        /\ RequestSent => ~afterFailure'
      ]_vars

----------------------------------------------------------------------------
(* The access token of the session (Spec) *)

\* the access_token in the backend's answer to the sign-in of this step: the
\* token it issued, if it issued one
BackendToken == IF issued' # issued THEN issued' ELSE NoToken

----------------------------------------------------------------------------
(* The loading flags (SpecLoading) *)

\* C30: with every request completing, the loading flag of the dashboard
\* (and the searchLoading flag of its second version) and the loading flag of
\* the onboarding wizard, once true, become false again, whatever the
\* outcomes and whatever the user does meanwhile.
C30_LoadingReturnsToFalse ==
    /\ loading ~> ~loading
    /\ searchLoading ~> ~searchLoading
    /\ onbLoading ~> ~onbLoading

\* a fetch of the dashboard has ended in a network error while another request
\* was in flight, and the spinner is off on the same page
C30_Witness ==
    /\ route = "/dashboard" /\ pendingNav = "none"
    /\ ev.view = "dashboard" /\ ev.outcome = "network"
    /\ ~loading /\ Outstanding # {}

====
